---- MODULE Spec2Model ----
(***************************************************************************)
(* Call-recording emotion analysis: the label mapper (classify_emotion),   *)
(* the call aggregator (analyze_call) and the batch driver                 *)
(* (run_live_analysis, process_batch).                                     *)
(*                                                                         *)
(* Scores are Python floats in the source.  They are modelled as exact     *)
(* multiples of one tenth (the integer 8 is the score 0.8), percentages    *)
(* as exact multiples of one hundredth of a percent (4000 is 40.0).        *)
(* A dict is a function whose DOMAIN is its key set.                       *)
(***************************************************************************)
EXTENDS Integers, Sequences, FiniteSets, TLC

VARIABLES
    raw, item_idx, mapped, cls_pc,        \* classify_emotion: result, loop position, mapped
    audio_files, files_to_process, file_idx, statuses, bars, lines, transcripts,
    batch_ret, pc,                        \* process_batch
    call,                                 \* the frame of the running analyze_call
    calls,                                \* frames of two overlapping analyze_call invocations
    cleaned                               \* the file "cleaned.wav" in the working directory

vars == <<raw, item_idx, mapped, cls_pc, audio_files, files_to_process, file_idx,
          statuses, bars, lines, transcripts, batch_ret, pc, call, calls, cleaned>>

classifyVars == <<raw, item_idx, mapped, cls_pc>>
batchVars == <<audio_files, files_to_process, file_idx, statuses, bars, lines,
               transcripts, batch_ret, pc>>

-----------------------------------------------------------------------------
(* Bounds of the model *)

MaxPairs == 3        \* longest enumerated raw classification
MaxRawScore == 1     \* largest score of an enumerated raw classification (tenths)
MaxTotal == 2        \* largest per-key total of an enumerated EmotionTotals (tenths)
MaxFiles == 12       \* largest uploaded batch

-----------------------------------------------------------------------------
(* The mapper: classify_emotion *)

emotion_labels ==
    <<"happy", "angry", "frustrated", "confused", "sad", "surprised", "neutral",
      "hopeful", "bored">>

EmotionKeys == {emotion_labels[n] : n \in 1..Len(emotion_labels)}

\* str.lower() over the label vocabulary of the model
Lower(label) ==
    CASE label = "JOY" -> "joy"
      [] label = "Anger" -> "anger"
      [] label = "Sadness" -> "sadness"
      [] label = "Neutral-ish" -> "neutral-ish"
      [] OTHER -> label

\* the if/elif chain: the bucket a lower-cased label adds into, "" when no branch matches
Bucket(label) ==
    IF label \in {"joy"} THEN "happy"
    ELSE IF label \in {"anger", "annoyance"} THEN "angry"
    ELSE IF label \in {"disgust", "disappointment"} THEN "frustrated"
    ELSE IF label \in {"confusion", "realization"} THEN "confused"
    ELSE IF label \in {"sadness"} THEN "sad"
    ELSE IF label \in {"surprise"} THEN "surprised"
    ELSE IF label \in {"neutral"} THEN "neutral"
    ELSE IF label \in {"caring", "excitement"} THEN "hopeful"
    ELSE IF label \in {"boredom"} THEN "bored"
    ELSE ""

\* dict.fromkeys(emotion_labels, 0.0)
ZeroVector == [k \in EmotionKeys |-> 0]

MapItemOverwrite(m, item) ==
    LET b == Bucket(Lower(item.label))
    IN  IF b = "" THEN m ELSE [m EXCEPT ![b] = item.score]

MapItemNewKey(m, item) ==
    LET b == Lower(item.label)
    IN  [k \in DOMAIN m \cup {b} |-> (IF k \in DOMAIN m THEN m[k] ELSE 0)
                                     + (IF k = b THEN item.score ELSE 0)]

\* one iteration of the loop over the classifier's result
MapItem(m, item) ==
    LET b == Bucket(Lower(item.label))
    IN  IF b = "" THEN m ELSE [m EXCEPT ![b] = m[b] + item.score]

RECURSIVE MapFrom(_, _, _)
MapFrom(m, result, n) ==
    IF n > Len(result) THEN m ELSE MapFrom(MapItem(m, result[n]), result, n + 1)

\* classify_emotion, given the classifier's result for the text
ClassifyResult(result) == MapFrom(ZeroVector, result, 1)

-----------------------------------------------------------------------------
(* The external collaborators, as the functions the model fixes for them *)

Pair(l, s) == [label |-> l, score |-> s]

Failure(e) == [ok |-> FALSE, error |-> e]

\* emotion_model(text)[0]: the label/score pairs of a text, or the classifier's failure
EmotionModel(text) ==
    CASE text = "thank you so much" ->
            [ok |-> TRUE, result |-> <<Pair("joy", 8), Pair("neutral", 2)>>]
      [] text = "i lost everything" ->
            [ok |-> TRUE, result |-> <<Pair("sadness", 10)>>]
      [] text = "this is ridiculous" ->
            [ok |-> TRUE, result |-> <<Pair("anger", 3), Pair("annoyance", 2),
                                       Pair("neutral-ish", 9)>>]
      [] text = "i love it" ->
            [ok |-> TRUE, result |-> <<Pair("love", 6), Pair("fear", 4)>>]
      [] text = "WHAT" ->
            [ok |-> TRUE, result |-> <<Pair("JOY", 1), Pair("Anger", 2), Pair("Sadness", 3),
                                       Pair("Neutral-ish", 4)>>]
      [] text = "well it depends" ->
            [ok |-> TRUE, result |->
                <<Pair("joy", 1), Pair("anger", 1), Pair("annoyance", 1), Pair("disgust", 1),
                  Pair("disappointment", 1), Pair("confusion", 1), Pair("realization", 1),
                  Pair("sadness", 1), Pair("surprise", 1), Pair("neutral", 1),
                  Pair("caring", 1), Pair("excitement", 1), Pair("boredom", 1)>>]
      [] text = "fine" ->
            [ok |-> TRUE, result |->
                <<Pair("sadness", 1), Pair("joy", 5), Pair("love", 1), Pair("anger", 1),
                  Pair("fear", 1), Pair("surprise", 1)>>]
      [] text = "hm" ->
            [ok |-> TRUE, result |-> <<>>]
      [] OTHER -> Failure("classifier error")

Texts ==
    {"thank you so much", "i lost everything", "this is ridiculous", "i love it", "WHAT",
     "well it depends", "fine", "hm", "###"}

\* what is spoken in an audio file, utterance by utterance
Speech(audio) ==
    CASE audio = "silence.wav" -> <<>>
      [] audio = "example.wav" -> <<"thank you so much", "i lost everything">>
      [] audio = "complaint.wav" -> <<"this is ridiculous", "WHAT", "well it depends">>
      [] audio = "smalltalk.wav" -> <<"i love it", "hm">>
      [] audio = "survey.wav" -> <<"fine">>
      [] audio = "glitch.wav" -> <<"thank you so much", "###", "i lost everything">>
      [] OTHER -> <<>>

Audios ==
    {"silence.wav", "example.wav", "complaint.wav", "smalltalk.wav", "survey.wav",
     "glitch.wav", "notes.txt", "truncated.mp3"}

\* an uploaded file: the temporary directory it was stored in and its base name, which
\* stands for its content
File(dir, base) == [dir |-> dir, base |-> base]

\* ffmpeg input(...).output(..., ar='16000', ac='1', format='wav', af='dynaudnorm').run()
Ffmpeg(input_path) ==
    IF input_path.base = "notes.txt"
    THEN Failure("ffmpeg.Error")
    ELSE [ok |-> TRUE, wav |-> [ar |-> 16000, ac |-> 1, of |-> input_path.base]]

NoFile == [ar |-> 0, ac |-> 0, of |-> ""]

\* transcriber.transcribe(clean_path) on the content found at that path
Whisper(wav) ==
    IF wav = NoFile \/ wav.of = "truncated.mp3"
    THEN Failure("transcription error")
    ELSE [ok |-> TRUE,
          result |-> [language |-> "en",
                      segments |-> [n \in 1..Len(Speech(wav.of)) |->
                                        [text |-> Speech(wav.of)[n]]]]]

\* translate_text_auto
translate_text_auto(text, src_lang) == text

-----------------------------------------------------------------------------
(* analyze_call, one step at a time on the frame of an invocation *)

EmptyDict == [k \in {} |-> 0]

NoResult == [language |-> "", segments |-> <<>>]

NewCallStale(audio_path) ==
    [pc |-> "preprocess", audio_path |-> audio_path, clean_path |-> "",
     result |-> NoResult, seg |-> 1,
     emotion_totals |-> call.emotion_totals, utterance_count |-> call.utterance_count,
     emotion_history |-> call.emotion_history, full_transcript |-> call.full_transcript,
     ret |-> <<>>, error |-> ""]

\* the locals of analyze_call on entry ("Reset per call")
NewCall(audio_path) ==
    [pc |-> "preprocess", audio_path |-> audio_path, clean_path |-> "",
     result |-> NoResult, seg |-> 1,
     emotion_totals |-> EmptyDict, utterance_count |-> 0,
     emotion_history |-> <<>>, full_transcript |-> <<>>,
     ret |-> <<>>, error |-> ""]

Raise(f, e) == [f EXCEPT !.pc = "raised", !.error = e]

\* clean_path = preprocess_audio(audio_path): ffmpeg overwrites cleaned.wav
PreprocessCall(f, disk) ==
    LET out == Ffmpeg(f.audio_path)
    IN  IF out.ok
        THEN [frame |-> [f EXCEPT !.pc = "transcribe", !.clean_path = "cleaned.wav"],
              disk |-> out.wav]
        ELSE [frame |-> Raise(f, out.error), disk |-> disk]

\* result = transcriber.transcribe(clean_path): reads what cleaned.wav holds now
TranscribeCall(f, disk) ==
    LET out == Whisper(disk)
    IN  IF out.ok
        THEN [f EXCEPT !.pc = "loop", !.result = out.result, !.seg = 1]
        ELSE Raise(f, out.error)

\* emotion_totals[k] read from the defaultdict(float): 0.0 for a key not yet added
DefaultGet(totals, k) == IF k \in DOMAIN totals THEN totals[k] ELSE 0

AccumulateOverwrite(totals, emotions) ==
    [k \in DOMAIN totals \cup DOMAIN emotions |->
        IF k \in DOMAIN emotions THEN emotions[k] ELSE totals[k]]

\* for k, v in emotions.items(): emotion_totals[k] += v  (a defaultdict(float))
Accumulate(totals, emotions) ==
    [k \in DOMAIN totals \cup DOMAIN emotions |->
        (IF k \in DOMAIN totals THEN totals[k] ELSE 0)
        + (IF k \in DOMAIN emotions THEN emotions[k] ELSE 0)]

SegmentCallSkip(f) ==
    LET text == f.result.segments[f.seg].text
        translated == translate_text_auto(text, f.result.language)
        out == EmotionModel(translated)
        emotions == ClassifyResult(out.result)
    IN  IF out.ok
        THEN [f EXCEPT !.full_transcript = Append(@, text),
                       !.emotion_totals = Accumulate(@, emotions),
                       !.utterance_count = @ + 1,
                       !.emotion_history = Append(@, [text |-> text,
                                                      translated |-> translated,
                                                      emotions |-> emotions]),
                       !.seg = @ + 1]
        ELSE [f EXCEPT !.full_transcript = Append(@, text),
                       !.seg = Len(f.result.segments) + 1]

SegmentCallPrepend(f) ==
    LET text == f.result.segments[f.seg].text
        translated == translate_text_auto(text, f.result.language)
        out == EmotionModel(translated)
        emotions == ClassifyResult(out.result)
    IN  IF out.ok
        THEN [f EXCEPT !.full_transcript = Append(@, text),
                       !.emotion_totals = Accumulate(@, emotions),
                       !.utterance_count = @ + 1,
                       !.emotion_history = <<[text |-> text,
                                              translated |-> translated,
                                              emotions |-> emotions]>> \o @,
                       !.seg = @ + 1]
        ELSE Raise([f EXCEPT !.full_transcript = Append(@, text)], out.error)

\* one iteration of the loop over result['segments']
SegmentCall(f) ==
    LET text == f.result.segments[f.seg].text
        translated == translate_text_auto(text, f.result.language)
        out == EmotionModel(translated)
        emotions == ClassifyResult(out.result)
    IN  IF out.ok
        THEN [f EXCEPT !.full_transcript = Append(@, text),
                       !.emotion_totals = Accumulate(@, emotions),
                       !.utterance_count = @ + 1,
                       !.emotion_history = Append(@, [text |-> text,
                                                      translated |-> translated,
                                                      emotions |-> emotions]),
                       !.seg = @ + 1]
        ELSE Raise([f EXCEPT !.full_transcript = Append(@, text)], out.error)

RECURSIVE SumOver(_, _)
SumOver(d, keys) ==
    IF keys = {} THEN 0
    ELSE LET k == CHOOSE x \in keys : TRUE IN d[k] + SumOver(d, keys \ {k})

\* sum(d.values())
SumValues(d) == SumOver(d, DOMAIN d)

\* n / d rounded to the nearest integer, ties to the even one
RoundHalfEven(n, d) ==
    LET q == n \div d
        r == n % d
    IN  IF 2 * r < d THEN q
        ELSE IF 2 * r > d THEN q + 1
        ELSE IF q % 2 = 0 THEN q ELSE q + 1

PercentageOneDecimal(v, total) == RoundHalfEven(1000 * v, total) * 10

\* round((v / total) * 100, 2), in hundredths of a percent
Percentage(v, total) == RoundHalfEven(10000 * v, total)

\* {k: round((v / total) * 100, 2) if total > 0 else 0.0 for k, v in emotion_totals.items()}
FinalPercentages(emotion_totals) ==
    LET total == SumValues(emotion_totals)
    IN  [k \in DOMAIN emotion_totals |->
            IF total > 0 THEN Percentage(emotion_totals[k], total) ELSE 0]

\* "\n".join(full_transcript)
RECURSIVE JoinLines(_)
JoinLines(texts) ==
    IF Len(texts) = 0 THEN ""
    ELSE IF Len(texts) = 1 THEN texts[1]
    ELSE texts[1] \o "\n" \o JoinLines(Tail(texts))

\* the code after the loop: totals to percentages, the transcript, the return
FinalizeCall(f) ==
    [f EXCEPT !.pc = "returned",
              !.ret = <<f.emotion_history, FinalPercentages(f.emotion_totals),
                        JoinLines(f.full_transcript)>>]

-----------------------------------------------------------------------------
(* run_live_analysis and process_batch *)

segment_duration == 30

BatchLimit == 10

\* the value None where a chart is expected
None == [chart |-> "None"]

AnalysisFailed ==
    <<[ok |-> FALSE, text |-> "Analysis failed - Please try again with a valid audio file"],
      None, None, "No transcription available.">>

\* run_live_analysis after analyze_call has returned `result`
RenderResult(result) ==
    IF Len(result) # 3
    THEN [raised |-> FALSE, value |-> AnalysisFailed]
    ELSE LET emotion_history == result[1]
             final_percentages == result[2]
             full_transcript == result[3]
             total_segments == Len(emotion_history)
             total_duration == total_segments * segment_duration
         IN  IF DOMAIN final_percentages = {}
             THEN \* max(values) of an empty list
                  [raised |-> TRUE, value |-> <<>>]
             ELSE [raised |-> FALSE,
                   value |-> <<[ok |-> TRUE, segments |-> total_segments,
                                minutes |-> total_duration \div 60,
                                seconds |-> total_duration % 60],
                               [chart |-> "bar", values |-> final_percentages],
                               [chart |-> "line",
                                trend |-> [n \in 1..total_segments |->
                                               emotion_history[n].emotions]],
                               full_transcript>>]

\* os.path.basename(file)
Basename(file) == file.base

FilesToProcessAll(files) == files

\* audio_files[:10] if len(audio_files) > 10 else audio_files
FilesToProcess(files) ==
    IF Len(files) > BatchLimit THEN SubSeq(files, 1, BatchLimit) ELSE files

\* the notification string of process_batch
Notification(files, processed) ==
    [text |-> "Successfully processed", count |-> Len(processed),
     note |-> IF Len(files) > BatchLimit
              THEN <<"Limited to first 10 files", Len(files) - BatchLimit, "files skipped">>
              ELSE <<>>]

NoFilesReturn ==
    [combined_status |-> <<"No files uploaded">>, bars |-> <<>>, lines |-> <<>>,
     combined_transcripts |-> <<"No transcriptions available.">>,
     notification |-> [text |-> "Please upload audio files first.", count |-> 0,
                       note |-> <<>>]]

NoReturn ==
    [combined_status |-> <<>>, bars |-> <<>>, lines |-> <<>>, combined_transcripts |-> <<>>,
     notification |-> [text |-> "", count |-> 0, note |-> <<>>]]

\* no analyze_call is running
IdleCall ==
    [pc |-> "idle", audio_path |-> File(0, ""), clean_path |-> "",
     result |-> NoResult, seg |-> 1,
     emotion_totals |-> EmptyDict, utterance_count |-> 0,
     emotion_history |-> <<>>, full_transcript |-> <<>>,
     ret |-> <<>>, error |-> ""]

\* process_batch up to the loop
BatchStart ==
    /\ pc = "start"
    /\ IF Len(audio_files) = 0
       THEN /\ pc' = "returned"
            /\ batch_ret' = NoFilesReturn
            /\ UNCHANGED <<files_to_process, file_idx, statuses, bars, lines, transcripts>>
       ELSE /\ pc' = "loop"
            /\ statuses' = <<>>
            /\ bars' = <<>>
            /\ lines' = <<>>
            /\ transcripts' = <<>>
            /\ files_to_process' = FilesToProcess(audio_files)
            /\ file_idx' = 1
            /\ UNCHANGED batch_ret
    /\ UNCHANGED <<audio_files, call, calls, cleaned, classifyVars>>

\* the loop takes the next file: run_live_analysis(file) enters analyze_call(audio_file)
EnterCall ==
    /\ pc = "loop"
    /\ file_idx <= Len(files_to_process)
    /\ call' = NewCall(files_to_process[file_idx])
    /\ pc' = "in_call"
    /\ UNCHANGED <<audio_files, files_to_process, file_idx, statuses, bars, lines,
                   transcripts, batch_ret, calls, cleaned, classifyVars>>

\* an exception of analyze_call passes through run_live_analysis and process_batch
Propagate(frame) == IF frame.pc = "raised" THEN "raised" ELSE "in_call"

Preprocess ==
    /\ pc = "in_call"
    /\ call.pc = "preprocess"
    /\ LET out == PreprocessCall(call, cleaned)
       IN  /\ call' = out.frame
           /\ cleaned' = out.disk
           /\ pc' = Propagate(out.frame)
    /\ UNCHANGED <<audio_files, files_to_process, file_idx, statuses, bars, lines,
                   transcripts, batch_ret, calls, classifyVars>>

Transcribe ==
    /\ pc = "in_call"
    /\ call.pc = "transcribe"
    /\ call' = TranscribeCall(call, cleaned)
    /\ pc' = Propagate(call')
    /\ UNCHANGED <<audio_files, files_to_process, file_idx, statuses, bars, lines,
                   transcripts, batch_ret, calls, cleaned, classifyVars>>

ProcessSegment ==
    /\ pc = "in_call"
    /\ call.pc = "loop"
    /\ call.seg <= Len(call.result.segments)
    /\ call' = SegmentCall(call)
    /\ pc' = Propagate(call')
    /\ UNCHANGED <<audio_files, files_to_process, file_idx, statuses, bars, lines,
                   transcripts, batch_ret, calls, cleaned, classifyVars>>

Finalize ==
    /\ pc = "in_call"
    /\ call.pc = "loop"
    /\ call.seg > Len(call.result.segments)
    /\ call' = FinalizeCall(call)
    /\ UNCHANGED <<batchVars, calls, cleaned, classifyVars>>

\* the rest of run_live_analysis and of the loop body of process_batch
Render ==
    /\ pc = "in_call"
    /\ call.pc = "returned"
    /\ LET out == RenderResult(call.ret)
           file == files_to_process[file_idx]
           file_name == Basename(file)
       IN  IF out.raised
           THEN /\ pc' = "raised"
                /\ UNCHANGED <<statuses, bars, lines, transcripts, file_idx, call>>
           ELSE /\ statuses' = Append(statuses, [file_name |-> file_name,
                                                 status |-> out.value[1]])
                /\ bars' = IF out.value[2] # None THEN Append(bars, out.value[2]) ELSE bars
                /\ lines' = IF out.value[3] # None THEN Append(lines, out.value[3]) ELSE lines
                /\ transcripts' = Append(transcripts, [file_name |-> file_name,
                                                       transcript |-> out.value[4]])
                /\ file_idx' = file_idx + 1
                /\ call' = [call EXCEPT !.pc = "idle"]
                /\ pc' = "loop"
    /\ UNCHANGED <<audio_files, files_to_process, batch_ret, calls, cleaned, classifyVars>>

\* the code of process_batch after the loop
BatchReturn ==
    /\ pc = "loop"
    /\ file_idx > Len(files_to_process)
    /\ batch_ret' = [combined_status |-> statuses, bars |-> bars, lines |-> lines,
                     combined_transcripts |-> transcripts,
                     notification |-> Notification(audio_files, files_to_process)]
    /\ pc' = "returned"
    /\ UNCHANGED <<audio_files, files_to_process, file_idx, statuses, bars, lines,
                   transcripts, call, calls, cleaned, classifyVars>>

-----------------------------------------------------------------------------
(* Specification of one batch: process_batch on an uploaded list of files *)

AllPool ==
    <<"example.wav", "smalltalk.wav", "silence.wav", "complaint.wav", "glitch.wav",
      "survey.wav", "notes.txt", "truncated.mp3">>

GoodPool == <<"example.wav", "complaint.wav", "smalltalk.wav", "survey.wav">>

\* n uploaded files taken round-robin from a pool, starting at offset off
Upload(pool, n, off) ==
    [i \in 1..n |-> File(i, pool[((i - 1 + off) % Len(pool)) + 1])]

\* what cleaned.wav may hold before the program runs: nothing, or an earlier run's output
LeftOver == {NoFile, Ffmpeg(File(0, "survey.wav")).wav}

ClassifyIdle ==
    /\ raw = <<>>
    /\ item_idx = 0
    /\ mapped = ZeroVector
    /\ cls_pc = "idle"

BatchIdle ==
    /\ audio_files = <<>>
    /\ files_to_process = <<>>
    /\ file_idx = 0
    /\ statuses = <<>>
    /\ bars = <<>>
    /\ lines = <<>>
    /\ transcripts = <<>>
    /\ batch_ret = NoReturn
    /\ pc = "idle"

Init ==
    /\ \E pool \in {AllPool, GoodPool} :
         \E n \in 0..MaxFiles, off \in 0..(Len(pool) - 1) :
            audio_files = Upload(pool, n, off)
    /\ files_to_process = <<>>
    /\ file_idx = 0
    /\ statuses = <<>>
    /\ bars = <<>>
    /\ lines = <<>>
    /\ transcripts = <<>>
    /\ batch_ret = NoReturn
    /\ pc = "start"
    /\ call = IdleCall
    /\ calls = <<>>
    /\ cleaned \in LeftOver
    /\ ClassifyIdle

Next ==
    \/ BatchStart
    \/ EnterCall
    \/ Preprocess
    \/ Transcribe
    \/ ProcessSegment
    \/ Finalize
    \/ Render
    \/ BatchReturn

Spec == Init /\ [][Next]_vars

-----------------------------------------------------------------------------
(* Specification of classify_emotion alone, over enumerated classifier results *)

EnumLabels ==
    {"joy", "anger", "annoyance", "Anger", "sadness", "caring", "love", "neutral-ish"}

EnumPairs == {Pair(l, s) : l \in EnumLabels, s \in 0..MaxRawScore}

EnumResults == UNION {[1..n -> EnumPairs] : n \in 0..MaxPairs}

ClassifyInputs ==
    EnumResults \cup {EmotionModel(t).result : t \in {x \in Texts : EmotionModel(x).ok}}

\* result = emotion_model(text)[0]; mapped = dict.fromkeys(emotion_labels, 0.0)
InitClassify ==
    /\ raw \in ClassifyInputs
    /\ item_idx = 1
    /\ mapped = ZeroVector
    /\ cls_pc = "loop"
    /\ BatchIdle
    /\ call = IdleCall
    /\ calls = <<>>
    /\ cleaned = NoFile

ClassifyItem ==
    /\ cls_pc = "loop"
    /\ item_idx <= Len(raw)
    /\ mapped' = MapItem(mapped, raw[item_idx])
    /\ item_idx' = item_idx + 1
    /\ UNCHANGED <<raw, cls_pc, batchVars, call, calls, cleaned>>

\* return mapped
ClassifyReturn ==
    /\ cls_pc = "loop"
    /\ item_idx > Len(raw)
    /\ cls_pc' = "returned"
    /\ UNCHANGED <<raw, item_idx, mapped, batchVars, call, calls, cleaned>>

NextClassify == ClassifyItem \/ ClassifyReturn

SpecClassify == InitClassify /\ [][NextClassify]_vars

-----------------------------------------------------------------------------
(* Specification of the normalisation alone: analyze_call at the end of its loop,  *)
(* over enumerated EmotionTotals                                                   *)

\* the frame of a call whose only segment was classified as `emotions`
AfterOneSegment(audio_path, text, emotions) ==
    [NewCall(audio_path) EXCEPT
        !.pc = "loop", !.clean_path = "cleaned.wav",
        !.result = [language |-> "en", segments |-> <<[text |-> text]>>],
        !.seg = 2,
        !.emotion_totals = Accumulate(EmptyDict, emotions),
        !.utterance_count = 1,
        !.emotion_history = <<[text |-> text, translated |-> text, emotions |-> emotions]>>,
        !.full_transcript = <<text>>]

InitNormalize ==
    /\ audio_files = <<File(1, "recording.wav")>>
    /\ files_to_process = audio_files
    /\ file_idx = 1
    /\ statuses = <<>>
    /\ bars = <<>>
    /\ lines = <<>>
    /\ transcripts = <<>>
    /\ batch_ret = NoReturn
    /\ pc = "in_call"
    /\ \E emotions \in [EmotionKeys -> 0..MaxTotal] :
          call = AfterOneSegment(audio_files[1], "recording", emotions)
    /\ calls = <<>>
    /\ cleaned = Ffmpeg(audio_files[1]).wav
    /\ ClassifyIdle

NextNormalize == Finalize

SpecNormalize == InitNormalize /\ [][NextNormalize]_vars

-----------------------------------------------------------------------------
(* Specification of two overlapping analyze_call invocations in one process *)

Invocations == {1, 2}

InitConcurrent ==
    /\ \E a, b \in Audios :
          /\ a # b
          /\ calls = [p \in Invocations |-> NewCall(File(p, IF p = 1 THEN a ELSE b))]
    /\ cleaned \in LeftOver
    /\ call = IdleCall
    /\ BatchIdle
    /\ ClassifyIdle

ConcPreprocess(p) ==
    /\ calls[p].pc = "preprocess"
    /\ LET out == PreprocessCall(calls[p], cleaned)
       IN  /\ calls' = [calls EXCEPT ![p] = out.frame]
           /\ cleaned' = out.disk
    /\ UNCHANGED <<call, batchVars, classifyVars>>

ConcTranscribe(p) ==
    /\ calls[p].pc = "transcribe"
    /\ calls' = [calls EXCEPT ![p] = TranscribeCall(calls[p], cleaned)]
    /\ UNCHANGED <<cleaned, call, batchVars, classifyVars>>

ConcProcessSegment(p) ==
    /\ calls[p].pc = "loop"
    /\ calls[p].seg <= Len(calls[p].result.segments)
    /\ calls' = [calls EXCEPT ![p] = SegmentCall(calls[p])]
    /\ UNCHANGED <<cleaned, call, batchVars, classifyVars>>

ConcFinalize(p) ==
    /\ calls[p].pc = "loop"
    /\ calls[p].seg > Len(calls[p].result.segments)
    /\ calls' = [calls EXCEPT ![p] = FinalizeCall(calls[p])]
    /\ UNCHANGED <<cleaned, call, batchVars, classifyVars>>

NextConcurrent ==
    \/ \E p \in Invocations : ConcPreprocess(p)
    \/ \E p \in Invocations : ConcTranscribe(p)
    \/ \E p \in Invocations : ConcProcessSegment(p)
    \/ \E p \in Invocations : ConcFinalize(p)

SpecConcurrent == InitConcurrent /\ [][NextConcurrent]_vars

-----------------------------------------------------------------------------
(* Claims about the zero-segment result and about classify_emotion *)

AllZero(d) == DOMAIN d = EmotionKeys /\ \A k \in EmotionKeys : d[k] = 0

\* C1: when transcription yields zero segments, analyze_call returns an empty history,
\* an empty transcript string and percentages holding each of the 9 canonical keys
\* with value 0.0.
C1_ZeroSegmentsAllZero ==
    (call.pc = "returned" /\ Len(call.result.segments) = 0)
        => /\ call.ret[1] = <<>>
           /\ AllZero(call.ret[2])
           /\ call.ret[3] = ""

\* C2: classify_emotion returns a mapping whose key set is exactly the 9 canonical
\* names and whose values are all >= 0, whatever the classifier's pairs are
\* (none, or only unrecognized labels, included).
C2_NineKeysNonNegative ==
    cls_pc = "returned"
        => /\ DOMAIN mapped = EmotionKeys
           /\ Cardinality(DOMAIN mapped) = 9
           /\ \A k \in DOMAIN mapped : mapped[k] >= 0

Unrecognized(label) == Bucket(Lower(label)) = ""

C2_Witness ==
    /\ cls_pc = "returned"
    /\ Len(raw) >= 2
    /\ \A n \in 1..Len(raw) : Unrecognized(raw[n].label) /\ raw[n].score > 0
    /\ mapped = ZeroVector

\* the fixed table of the specification: external label -> canonical bucket
LabelTable ==
    [l \in {"joy", "anger", "annoyance", "disgust", "disappointment", "confusion",
            "realization", "sadness", "surprise", "neutral", "caring", "excitement",
            "boredom"} |->
        CASE l = "joy" -> "happy"
          [] l \in {"anger", "annoyance"} -> "angry"
          [] l \in {"disgust", "disappointment"} -> "frustrated"
          [] l \in {"confusion", "realization"} -> "confused"
          [] l = "sadness" -> "sad"
          [] l = "surprise" -> "surprised"
          [] l = "neutral" -> "neutral"
          [] l \in {"caring", "excitement"} -> "hopeful"
          [] l = "boredom" -> "bored"]

\* the indexes of the pairs of a result that the table sends to bucket k
Feeding(result, k) ==
    {n \in 1..Len(result) :
        /\ Lower(result[n].label) \in DOMAIN LabelTable
        /\ LabelTable[Lower(result[n].label)] = k}

RECURSIVE ScoreSum(_, _)
ScoreSum(result, idxs) ==
    IF idxs = {} THEN 0
    ELSE LET n == CHOOSE x \in idxs : TRUE
         IN  result[n].score + ScoreSum(result, idxs \ {n})

Swapped(result, a, b) ==
    [n \in 1..Len(result) |->
        IF n = a THEN result[b] ELSE IF n = b THEN result[a] ELSE result[n]]

Reversed(result) == [n \in 1..Len(result) |-> result[Len(result) + 1 - n]]

-----------------------------------------------------------------------------
(* Claims about the normalisation *)

Abs(x) == IF x < 0 THEN 0 - x ELSE x

\* C4: after the loop, with total the sum of EmotionTotals over the 9 keys, each of
\* the 9 keys has FinalPercentages[key] = round(100 * EmotionTotals[key] / total, 2),
\* a value in [0, 100], when total > 0, and 0.0 when total = 0; the two utterances
\* {joy: 0.8, neutral: 0.2} and {sadness: 1.0} give happy 40.0, neutral 10.0, sad 50.0
\* and 0.0 for the other six keys.
C4_PercentagesOfNineKeys ==
    call.pc = "returned"
        => LET totals == call.emotion_totals
               final == call.ret[2]
               total == SumValues(totals)
           IN  /\ \A k \in EmotionKeys :
                     /\ k \in DOMAIN final
                     /\ IF total > 0
                        THEN /\ 2 * Abs(final[k] * total - 10000 * totals[k]) <= total
                             /\ final[k] \in 0..10000
                        ELSE final[k] = 0
               /\ call.audio_path.base = "example.wav"
                     => final = [ZeroVector EXCEPT !["happy"] = 4000, !["neutral"] = 1000,
                                                   !["sad"] = 5000]

SumOfPercentages(final) == SumValues(final)

\* C5 as stated: whenever the call's total score is > 0, the 9 independently rounded
\* percentages sum to a value within 0.02 of 100.0.
C5_SumWithinTwoHundredths ==
    (call.pc = "returned" /\ SumValues(call.emotion_totals) > 0)
        => Abs(SumOfPercentages(call.ret[2]) - 10000) <= 2

\* C5 as amended: whenever the call's total score is > 0, the 9 independently rounded
\* percentages sum to a value within 0.045 of 100.0 (9 roundings of at most 0.005 each).
C5_SumWithinNineHalfSteps ==
    (call.pc = "returned" /\ SumValues(call.emotion_totals) > 0)
        => 2 * Abs(SumOfPercentages(call.ret[2]) - 10000) <= 9

C5_Witness ==
    /\ call.pc = "returned"
    /\ SumValues(call.emotion_totals) > 0
    /\ Abs(SumOfPercentages(call.ret[2]) - 10000) = 3

-----------------------------------------------------------------------------
(* Claims about failures and about the independence of invocations *)

\* C6: a failure raised by preprocessing, transcription or classification inside
\* analyze_call is not caught there and reaches run_live_analysis, which then returns
\* the 'Analysis failed' status with no charts and 'No transcription available.', so
\* that the batch goes on with that status recorded for the file.
C6_FailureGivesAnalysisFailed ==
    call.pc = "raised"
        => /\ call.ret = <<>>
           /\ pc = "loop"
           /\ Len(statuses) >= 1
           /\ statuses[Len(statuses)] = [file_name |-> Basename(call.audio_path),
                                         status |-> AnalysisFailed[1]]
           /\ transcripts[Len(transcripts)] = [file_name |-> Basename(call.audio_path),
                                               transcript |-> AnalysisFailed[4]]

\* analyze_call run to its end on its own, from empty locals and no cleaned.wav
AloneStart(audio_path) ==
    [pc |-> "preprocess", audio_path |-> audio_path, clean_path |-> "",
     result |-> NoResult, seg |-> 1,
     emotion_totals |-> EmptyDict, utterance_count |-> 0,
     emotion_history |-> <<>>, full_transcript |-> <<>>,
     ret |-> <<>>, error |-> ""]

RECURSIVE AloneLoop(_)
AloneLoop(f) ==
    IF f.pc = "raised" THEN f
    ELSE IF f.seg > Len(f.result.segments) THEN FinalizeCall(f)
    ELSE AloneLoop(SegmentCall(f))

Alone(audio_path) ==
    LET p == PreprocessCall(AloneStart(audio_path), NoFile)
    IN  IF p.frame.pc = "raised" THEN p.frame
        ELSE AloneLoop(TranscribeCall(p.frame, p.disk))

\* C7: in a sequence of analyze_call invocations (the files of a batch), every
\* invocation starts from empty EmotionTotals, history and transcript, and what it
\* returns is what analysing its input alone returns, whatever calls came before.
C7_EachCallStartsFresh ==
    /\ call.pc = "preprocess"
          => /\ call.emotion_totals = EmptyDict
             /\ call.utterance_count = 0
             /\ call.emotion_history = <<>>
             /\ call.full_transcript = <<>>
    /\ call.pc = "returned" => call.ret = Alone(call.audio_path).ret

C7_Witness ==
    /\ call.pc = "returned"
    /\ file_idx = 2
    /\ Len(statuses) = 1
    /\ Len(call.ret[1]) = 3
    /\ statuses[1].status.segments = 2

\* C8: analyze_call has no partial success: when classification fails on segment k
\* of n nothing is returned for segments 1..k-1 (the caller gets no history,
\* percentages or transcript of that file), and a returned result covers every
\* segment the transcriber produced.
C8_NoPartialResult ==
    /\ call.pc = "raised"
          => /\ call.ret = <<>>
             /\ pc = "raised"
             /\ Len(statuses) = file_idx - 1
             /\ Len(transcripts) = file_idx - 1
             /\ batch_ret = NoReturn
    /\ call.pc = "returned"
          => /\ Len(call.ret[1]) = Len(call.result.segments)
             /\ \A n \in 1..Len(call.result.segments) :
                   call.ret[1][n].text = call.result.segments[n].text
             /\ call.ret[3] = JoinLines([n \in 1..Len(call.result.segments) |->
                                            call.result.segments[n].text])

C8_Witness ==
    /\ call.pc = "raised"
    /\ call.error = "classifier error"
    /\ call.seg = 2
    /\ Len(call.result.segments) = 3
    /\ Len(call.emotion_history) = 1
    /\ call.ret = <<>>

\* C9: two analyze_call invocations share no mutable state: under every interleaving
\* of their steps each transcribes its own preprocessed audio and returns (or fails
\* with) what it does when run alone.
C9_InterleavingIndependent ==
    \A p \in DOMAIN calls :
        /\ calls[p].pc \in {"loop", "returned"}
              => calls[p].result = Whisper(Ffmpeg(calls[p].audio_path).wav).result
        /\ calls[p].pc = "returned" => calls[p].ret = Alone(calls[p].audio_path).ret
        /\ calls[p].pc = "raised" => calls[p].error = Alone(calls[p].audio_path).error

-----------------------------------------------------------------------------
(* Claims about the batch cap *)

Min(a, b) == IF a < b THEN a ELSE b

\* the part of C10 that does not depend on how the truncation is reported: only the
\* first 10 files are analysed, in upload order, one at a time
FirstTenOnly ==
    /\ pc = "in_call"
          => /\ file_idx <= BatchLimit
             /\ call.audio_path = audio_files[file_idx]
             /\ Len(statuses) = file_idx - 1
    /\ pc \in {"loop", "in_call", "raised"}
          => \A n \in 1..Len(statuses) : statuses[n].file_name = Basename(audio_files[n])
    /\ (pc = "returned" /\ Len(audio_files) > 0)
          => /\ Len(batch_ret.combined_status) = Min(Len(audio_files), BatchLimit)
             /\ \A n \in 1..Len(batch_ret.combined_status) :
                   batch_ret.combined_status[n].file_name = Basename(audio_files[n])
             /\ batch_ret.notification.count = Min(Len(audio_files), BatchLimit)

\* C10 as stated: given n > 10 files, process_batch analyses exactly the first 10 in
\* upload order and nothing in what it returns indicates that files were dropped.
C10_SilentTruncation ==
    /\ FirstTenOnly
    /\ (pc = "returned" /\ Len(audio_files) > BatchLimit)
          => batch_ret.notification.note = <<>>

\* C10 as amended: given n > 10 files, process_batch analyses exactly the first 10 in
\* upload order, one at a time, never the files 11..n, and the returned notification
\* reports the truncation: limited to the first 10 files, n - 10 files skipped.
C10_ReportedTruncation ==
    /\ FirstTenOnly
    /\ (pc = "returned" /\ Len(audio_files) > BatchLimit)
          => batch_ret.notification.note =
                <<"Limited to first 10 files", Len(audio_files) - BatchLimit, "files skipped">>
    /\ (pc = "returned" /\ Len(audio_files) <= BatchLimit)
          => batch_ret.notification.note = <<>>

C10_Witness ==
    /\ pc = "returned"
    /\ Len(audio_files) = BatchLimit + 2
    /\ Len(batch_ret.combined_status) = BatchLimit
    /\ batch_ret.notification.note[2] = 2

-----------------------------------------------------------------------------
(* Claims about the segment loop of analyze_call *)

\* the emotion vector the table assigns to the classifier's result for a text
VectorOf(text) ==
    [k \in EmotionKeys |->
        ScoreSum(EmotionModel(text).result, Feeding(EmotionModel(text).result, k))]

\* the history after k segments: entry n holds segment n's text and vector
HistoryCoversProcessed(f) ==
    /\ Len(f.emotion_history) = f.seg - 1
    /\ Len(f.emotion_history) = f.utterance_count
    /\ \A n \in 1..Len(f.emotion_history) :
          /\ f.emotion_history[n].text = f.result.segments[n].text
          /\ f.emotion_history[n].emotions = VectorOf(f.result.segments[n].text)

\* a step of a running call appends at most one entry and changes no earlier one
HistoryAppendOnly(f, g) ==
    /\ Len(g.emotion_history) \in {Len(f.emotion_history), Len(f.emotion_history) + 1}
    /\ SubSeq(g.emotion_history, 1, Len(f.emotion_history)) = f.emotion_history
    /\ g.seg = f.seg + 1 <=> Len(g.emotion_history) = Len(f.emotion_history) + 1

\* C11: during analyze_call the history is append-only and grows by exactly one
\* entry per transcribed segment: after k segments it has exactly k entries, entry i
\* holds the text and the emotion vector of segment i, in order, and earlier entries
\* are never changed or removed.
C11_HistoryAppendOnly ==
    /\ [](call.pc = "loop" => HistoryCoversProcessed(call))
    /\ [][call.pc = "loop" => HistoryAppendOnly(call, call')]_vars

C11_Witness ==
    /\ call.pc = "loop"
    /\ call.seg = 3
    /\ Len(call.result.segments) = 3
    /\ Len(call.emotion_history) = 2
    /\ call.emotion_history[2].text = "WHAT"
    /\ call.emotion_history[1].emotions["angry"] = 5

RECURSIVE HistorySum(_, _)
HistorySum(history, k) ==
    IF Len(history) = 0 THEN 0
    ELSE history[Len(history)].emotions[k]
         + HistorySum(SubSeq(history, 1, Len(history) - 1), k)

\* C12: at every segment boundary of analyze_call's loop, EmotionTotals[key] is the sum
\* of that key over the emotion vectors of the segments recorded so far, and no
\* EmotionTotals[key] ever decreases as segments are added.
C12_TotalsAreSumsAndMonotone ==
    /\ [](call.pc = "loop"
            => /\ DOMAIN call.emotion_totals \subseteq EmotionKeys
               /\ \A k \in EmotionKeys :
                     DefaultGet(call.emotion_totals, k) = HistorySum(call.emotion_history, k))
    /\ [][call.pc = "loop"
            => \A k \in EmotionKeys :
                  DefaultGet(call'.emotion_totals, k) >= DefaultGet(call.emotion_totals, k)]_vars

C12_Witness ==
    /\ call.pc = "loop"
    /\ Len(call.emotion_history) = 2
    /\ call.emotion_history[1].emotions["angry"] = 5
    /\ call.emotion_history[2].emotions["angry"] = 2
    /\ call.emotion_totals["angry"] = 7

====
